---- MODULE Spec2Model ----
(***************************************************************************)
(* Model of nestkernel/secondary_event.h: the word codec                   *)
(* (number_of_uints_covered, write_to_comm_buffer, read_from_comm_buffer)  *)
(* and DataSecondaryEvent (the per-kind registry of supported syn ids, the *)
(* coefficient length and the coefficient window of an event instance).    *)
(*                                                                         *)
(* The communication buffer is std::vector< unsigned int >: a function     *)
(* from word index to word, a word being WordSize bytes.  An iterator into *)
(* it is a word index.  A value of type T is its object representation:    *)
(* a function from 0 .. sizeof(T)-1 to bytes.                              *)
(***************************************************************************)
EXTENDS Integers, Sequences, FiniteSets, TLC

\* ------------------------------------------------------------------ bounds
\* number of words of the communication buffer
BufWords == 4
\* bytes take the values 0 .. MaxByte in the codec specification
MaxByte == 1
\* sizeof(T) ranges over 1 .. MaxTypeSize (and sizeof(double))
MaxTypeSize == 6

\* synindex values are 1 .. MaxSynId
MaxSynId == 3
\* registry calls (set_syn_id, add_syn_id, reset_supported_syn_ids) per run
MaxCalls == 4
\* coefficient lengths are 0 .. MaxLen
MaxLen == 2
\* calls per run that change a window, a length or the buffer
MaxSteps == 4
\* threads of a parallel region
NumThreads == 2
\* calls per run of the whole program that change the registry, a length,
\* a window or the buffer
MaxRun == 3
\* event instances alive at a time
NumEvents == 2
\* the elements of a coefficient array take the values 1 .. MaxVal
MaxVal == 2

\* -------------------------------------------------------- program constants
\* sizeof( unsigned int )
WordSize == 4
\* sizeof( double ), the DataType of every concrete event
DoubleSize == 8
\* sizeof( synindex ), an unsigned char
SynindexSize == 1
\* sizeof( index ), a long
IndexSize == 8

\* size_t arithmetic wraps; the modulus is the largest power of two the
\* checker's integers hold
SizeModulus == 2 ^ 30

VARIABLES
  buffer,   \* the std::vector< unsigned int > the iterators point into
  codec,    \* the caller of the codec functions: its value d and iterator pos
  status,   \* "running", or "aborted" once an assertion has failed
  num_threads,                  \* omp_get_num_threads()
  pristine_supported_syn_ids_,  \* static, one vector per Subclass
  supported_syn_ids_,           \* static, one vector per Subclass
  coeff_length_,                \* static, one size_t per Subclass
  calls,    \* per Subclass, the registry calls that returned, in call order
  ev,       \* the event instances there are, each with its coefficient window
  sent,     \* the last operator>> that returned: where it wrote which elements
  nsteps,   \* the calls made so far that count against the bound of a run
  pc,       \* where the callers stand that follow a protocol or are inside a call
  frozen,   \* supported_syn_ids_ as it stood when the parallel region began
  last      \* the call that was made last, its arguments and what it returned

regvars == <<pristine_supported_syn_ids_, supported_syn_ids_, coeff_length_>>

vars == <<buffer, codec, status, num_threads, pristine_supported_syn_ids_,
          supported_syn_ids_, coeff_length_, calls, ev, sent, nsteps, pc, frozen,
          last>>

Min(a, b) == IF a < b THEN a ELSE b

Bytes == 0 .. MaxByte

\* a byte of an object that was never written
Uninit == -1

WordIdx == 0 .. BufWords - 1

TypeSizes == (1 .. MaxTypeSize) \cup {DoubleSize}

\* sizeof( T ) of a value given by its object representation
SizeOf(d) == Cardinality(DOMAIN d)

\* mutant: every word is filled from the start of the value
MemcpyToWordNoOffset(word, c, off, n) ==
  [k \in 0 .. WordSize - 1 |-> IF k < n THEN c[k] ELSE word[k]]

\* std::min( left_to_copy, sizeof( unsigned int ) ) bytes of c + off copied
\* over the first bytes of one word
\* mutant: the rest of the word is cleared
MemcpyToWordZeroFill(word, c, off, n) ==
  [k \in 0 .. WordSize - 1 |-> IF k < n THEN c[off + k] ELSE 0]

MemcpyToWord(word, c, off, n) ==
  [k \in 0 .. WordSize - 1 |-> IF k < n THEN c[off + k] ELSE word[k]]

\* n bytes of one word copied to c + off
MemcpyFromWord(c, off, word, n) ==
  [j \in DOMAIN c |-> IF j >= off /\ j < off + n THEN word[j - off] ELSE c[j]]

\* left_to_copy -= sizeof( unsigned int ) on a size_t
SizeSub(a, b) == (a - b) % SizeModulus

\* mutant: no rounding up
number_of_uints_covered_floor(size) == size \div WordSize

number_of_uints_covered(size) ==
  LET num_uints == size \div WordSize
  IN  IF num_uints * WordSize < size THEN num_uints + 1 ELSE num_uints

RECURSIVE WriteLoop(_, _, _, _, _, _)
WriteLoop(buf, c, pos, i, num_uints, left_to_copy) ==
  IF i < num_uints
  THEN WriteLoop([buf EXCEPT ![pos + i] =
                    MemcpyToWord(@, c, i * WordSize, Min(left_to_copy, WordSize))],
                 c, pos, i + 1, num_uints, SizeSub(left_to_copy, WordSize))
  ELSE buf

\* the third arguments of the memcpy calls of the loop, in order
RECURSIVE CopyLens(_, _, _)
CopyLens(i, num_uints, left_to_copy) ==
  IF i < num_uints
  THEN <<Min(left_to_copy, WordSize)>>
         \o CopyLens(i + 1, num_uints, SizeSub(left_to_copy, WordSize))
  ELSE <<>>

\* the buffer and the iterator after write_to_comm_buffer( d, pos )
write_to_comm_buffer(buf, d, pos) ==
  LET num_uints == number_of_uints_covered(SizeOf(d))
  IN  [buf |-> WriteLoop(buf, d, pos, 0, num_uints, SizeOf(d)),
       pos |-> pos + num_uints]

\* mutant: only the first word is read
RECURSIVE ReadLoopFirstWord(_, _, _, _, _, _)
ReadLoopFirstWord(buf, c, pos, i, num_uints, left_to_copy) ==
  IF i < 1
  THEN ReadLoopFirstWord(buf,
                MemcpyFromWord(c, i * WordSize, buf[pos + i], Min(left_to_copy, WordSize)),
                pos, i + 1, num_uints, SizeSub(left_to_copy, WordSize))
  ELSE c

RECURSIVE ReadLoop(_, _, _, _, _, _)
ReadLoop(buf, c, pos, i, num_uints, left_to_copy) ==
  IF i < num_uints
  THEN ReadLoop(buf,
                MemcpyFromWord(c, i * WordSize, buf[pos + i], Min(left_to_copy, WordSize)),
                pos, i + 1, num_uints, SizeSub(left_to_copy, WordSize))
  ELSE c

\* d and the iterator after read_from_comm_buffer( d, pos ), d holding the
\* bytes d0 before the call
read_from_comm_buffer(buf, d0, pos) ==
  LET num_uints == number_of_uints_covered(SizeOf(d0))
  IN  [d |-> ReadLoop(buf, d0, pos, 0, num_uints, SizeOf(d0)),
       pos |-> pos + num_uints]

\* ------------------------------------------------------------ the program
\* The Subclass template argument: each concrete event class has its own
\* copy of the three static members.  InstantaneousRateConnectionEvent and
\* DelayedRateConnectionEvent are declared exactly like GapJunctionEvent.
Kinds == {"GapJunctionEvent", "DiffusionConnectionEvent"}

SynIds == 1 .. MaxSynId

\* omp_get_thread_num() of the callers there can be
Threads == 0 .. num_threads - 1

NoCall == [op |-> "none"]

\* the places an event instance can live in
Events == 1 .. NumEvents

\* nothing was written to the buffer yet
NoSent == [valid |-> FALSE]

\* no instance lives in the place
NoEvent == [kind |-> "none", active |-> "none", ca |-> <<>>, begin |-> 0, end |-> 0,
            len0 |-> 0, at |-> 0, drift_factor_ |-> Uninit, diffusion_factor_ |-> Uninit]

\* memory a std::vector< unsigned int > is constructed with
FilledBuffer(f) == [w \in WordIdx |-> [k \in 0 .. WordSize - 1 |-> f]]

IdleCodec == [phase |-> "idle"]

\* no caller follows a protocol or is inside a call
NoPc == [phase |-> "none"]

InitRegistry ==
  /\ status = "running"
  /\ num_threads = 1
  /\ pristine_supported_syn_ids_ = [k \in Kinds |-> <<>>]
  /\ supported_syn_ids_ = [k \in Kinds |-> <<>>]
  /\ coeff_length_ = [k \in Kinds |-> 0]
  /\ calls = [k \in Kinds |-> <<>>]
  /\ frozen = [ids |-> [k \in Kinds |-> <<>>], ncalls |-> [k \in Kinds |-> 0]]
  /\ ev = [e \in Events |-> NoEvent]
  /\ sent = NoSent
  /\ nsteps = 0
  /\ pc = NoPc
  /\ last = NoCall

Init ==
  /\ InitRegistry
  /\ buffer = FilledBuffer(0)
  /\ codec = IdleCodec

\* VPManager::assert_single_threaded(): the assertion holds outside a
\* parallel region only
assert_single_threaded == num_threads = 1

\* a failed assert() ends the process: nothing runs afterwards
Abort == status' = "aborted"

\* the parallel region of a simulation run begins: setup is over
BeginParallel ==
  /\ status = "running"
  /\ num_threads = 1
  /\ num_threads' = NumThreads
  /\ frozen' = [ids |-> supported_syn_ids_,
                ncalls |-> [k \in Kinds |-> Len(calls[k])]]
  /\ last' = [op |-> "begin_parallel"]
  /\ UNCHANGED <<buffer, sent, codec, ev, status, regvars, calls>>

EndParallel ==
  /\ status = "running"
  /\ num_threads > 1
  /\ num_threads' = 1
  /\ last' = [op |-> "end_parallel"]
  /\ UNCHANGED <<buffer, sent, codec, ev, status, regvars, calls, frozen>>

\* std::find( supported_syn_ids_.begin(), supported_syn_ids_.end(), synid )
\*   != supported_syn_ids_.end()
Find(vec, synid) == \E i \in 1 .. Len(vec) : vec[i] = synid

supports_syn_id_value(k, synid) == Find(supported_syn_ids_[k], synid)

Logged(k, op, synid) == calls' = [calls EXCEPT ![k] = Append(@, [op |-> op, id |-> synid])]

\* mutant: the id is pushed onto pristine_supported_syn_ids_ only
set_syn_id_pristine_only(t, k, synid) ==
  /\ status = "running"
  /\ IF assert_single_threaded
     THEN /\ pristine_supported_syn_ids_' =
               [pristine_supported_syn_ids_ EXCEPT ![k] = Append(@, synid)]
          /\ Logged(k, "set_syn_id", synid)
          /\ UNCHANGED <<status, supported_syn_ids_>>
     ELSE /\ Abort
          /\ UNCHANGED <<pristine_supported_syn_ids_, supported_syn_ids_, calls>>
  /\ last' = [op |-> "set_syn_id", thread |-> t, kind |-> k, arg |-> synid]
  /\ UNCHANGED <<buffer, sent, codec, ev, num_threads, coeff_length_, frozen>>

set_syn_id(t, k, synid) ==
  /\ status = "running"
  /\ IF assert_single_threaded
     THEN /\ pristine_supported_syn_ids_' =
               [pristine_supported_syn_ids_ EXCEPT ![k] = Append(@, synid)]
          /\ supported_syn_ids_' = [supported_syn_ids_ EXCEPT ![k] = Append(@, synid)]
          /\ Logged(k, "set_syn_id", synid)
          /\ UNCHANGED status
     ELSE /\ Abort
          /\ UNCHANGED <<pristine_supported_syn_ids_, supported_syn_ids_, calls>>
  /\ last' = [op |-> "set_syn_id", thread |-> t, kind |-> k, arg |-> synid]
  /\ UNCHANGED <<buffer, sent, codec, ev, num_threads, coeff_length_, frozen>>

\* mutant: no assert( not supports_syn_id( synid ) )
add_syn_id_unchecked(t, k, synid) ==
  /\ status = "running"
  /\ IF assert_single_threaded
     THEN /\ supported_syn_ids_' = [supported_syn_ids_ EXCEPT ![k] = Append(@, synid)]
          /\ Logged(k, "add_syn_id", synid)
          /\ UNCHANGED status
     ELSE Abort /\ UNCHANGED <<supported_syn_ids_, calls>>
  /\ last' = [op |-> "add_syn_id", thread |-> t, kind |-> k, arg |-> synid]
  /\ UNCHANGED <<buffer, sent, codec, ev, num_threads, pristine_supported_syn_ids_,
                 coeff_length_, frozen>>

add_syn_id(t, k, synid) ==
  /\ status = "running"
  /\ IF supports_syn_id_value(k, synid)
     THEN Abort /\ UNCHANGED <<supported_syn_ids_, calls>>
     ELSE IF assert_single_threaded
          THEN /\ supported_syn_ids_' = [supported_syn_ids_ EXCEPT ![k] = Append(@, synid)]
               /\ Logged(k, "add_syn_id", synid)
               /\ UNCHANGED status
          ELSE Abort /\ UNCHANGED <<supported_syn_ids_, calls>>
  /\ last' = [op |-> "add_syn_id", thread |-> t, kind |-> k, arg |-> synid]
  /\ UNCHANGED <<buffer, sent, codec, ev, num_threads, pristine_supported_syn_ids_,
                 coeff_length_, frozen>>

\* mutant: the loop stops one element early
RECURSIVE ResetLoopShort(_, _, _)
ResetLoopShort(supported, pristine, i) ==
  IF i < Len(pristine) - 1
  THEN ResetLoopShort(Append(supported, pristine[i + 1]), pristine, i + 1)
  ELSE supported

\* the push_back loop of reset_supported_syn_ids, from index i (0-based)
RECURSIVE ResetLoop(_, _, _)
ResetLoop(supported, pristine, i) ==
  IF i < Len(pristine)
  THEN ResetLoop(Append(supported, pristine[i + 1]), pristine, i + 1)
  ELSE supported

\* mutant: one vector of supported ids shared by all kinds
reset_supported_syn_ids_shared(t, k) ==
  /\ status = "running"
  /\ supported_syn_ids_' =
       [k2 \in Kinds |-> ResetLoop(<<>>, pristine_supported_syn_ids_[k], 0)]
  /\ Logged(k, "reset", 0)
  /\ last' = [op |-> "reset_supported_syn_ids", thread |-> t, kind |-> k]
  /\ UNCHANGED <<buffer, sent, codec, ev, status, num_threads, pristine_supported_syn_ids_,
                 coeff_length_, frozen>>

reset_supported_syn_ids(t, k) ==
  /\ status = "running"
  /\ supported_syn_ids_' =
       [supported_syn_ids_ EXCEPT ![k] = ResetLoop(<<>>, pristine_supported_syn_ids_[k], 0)]
  /\ Logged(k, "reset", 0)
  /\ last' = [op |-> "reset_supported_syn_ids", thread |-> t, kind |-> k]
  /\ UNCHANGED <<buffer, sent, codec, ev, status, num_threads, pristine_supported_syn_ids_,
                 coeff_length_, frozen>>

\* mutant: no assert_single_threaded()
set_coeff_length_unguarded(t, k, coeff_length) ==
  /\ status = "running"
  /\ coeff_length_' = [coeff_length_ EXCEPT ![k] = coeff_length]
  /\ last' = [op |-> "set_coeff_length", thread |-> t, kind |-> k, arg |-> coeff_length]
  /\ UNCHANGED <<buffer, sent, codec, ev, status, num_threads,
                 pristine_supported_syn_ids_, supported_syn_ids_, calls, frozen>>

set_coeff_length(t, k, coeff_length) ==
  /\ status = "running"
  /\ IF assert_single_threaded
     THEN coeff_length_' = [coeff_length_ EXCEPT ![k] = coeff_length] /\ UNCHANGED status
     ELSE Abort /\ UNCHANGED coeff_length_
  /\ last' = [op |-> "set_coeff_length", thread |-> t, kind |-> k, arg |-> coeff_length]
  /\ UNCHANGED <<buffer, sent, codec, ev, num_threads, pristine_supported_syn_ids_,
                 supported_syn_ids_, calls, frozen>>

\* mutant: the search runs over pristine_supported_syn_ids_
supports_syn_id_pristine(t, k, synid) ==
  /\ status = "running"
  /\ last' = [op |-> "supports_syn_id", thread |-> t, kind |-> k, arg |-> synid,
              ret |-> Find(pristine_supported_syn_ids_[k], synid)]
  /\ UNCHANGED <<buffer, sent, codec, ev, status, num_threads, regvars, calls, frozen>>

\* a call of supports_syn_id( synid ) and the value it returns
supports_syn_id(t, k, synid) ==
  /\ status = "running"
  /\ last' = [op |-> "supports_syn_id", thread |-> t, kind |-> k, arg |-> synid,
              ret |-> supports_syn_id_value(k, synid)]
  /\ UNCHANGED <<buffer, sent, codec, ev, status, num_threads, regvars, calls, frozen>>

\* a call of get_supported_syn_ids() and the vector the returned reference
\* denotes
get_supported_syn_ids(t, k) ==
  /\ status = "running"
  /\ last' = [op |-> "get_supported_syn_ids", thread |-> t, kind |-> k,
              ret |-> supported_syn_ids_[k]]
  /\ UNCHANGED <<buffer, sent, codec, ev, status, num_threads, regvars, calls, frozen>>

\* the registry calls made so far
TotalCalls == Len(calls["GapJunctionEvent"]) + Len(calls["DiffusionConnectionEvent"])

\* -------------------------------------------- the registry on its own
\* Every sequence of at most MaxCalls registry calls on one kind in the
\* single-threaded setup phase, with reads in between.
RegistryKind == "GapJunctionEvent"

Uncounted == UNCHANGED <<nsteps, pc>>

NextRegistry ==
  \/ \E synid \in SynIds :
       TotalCalls < MaxCalls /\ set_syn_id(0, RegistryKind, synid) /\ Uncounted
  \/ \E synid \in SynIds :
       TotalCalls < MaxCalls /\ add_syn_id(0, RegistryKind, synid) /\ Uncounted
  \/ TotalCalls < MaxCalls /\ reset_supported_syn_ids(0, RegistryKind) /\ Uncounted
  \/ \E synid \in SynIds : supports_syn_id(0, RegistryKind, synid) /\ Uncounted
  \/ get_supported_syn_ids(0, RegistryKind) /\ Uncounted

SpecRegistry == Init /\ [][NextRegistry]_vars

\* the ids of the set_syn_id and add_syn_id calls of a log, in call order
RECURSIVE IdsOf(_, _)
IdsOf(log, ops) ==
  IF log = <<>> THEN <<>>
  ELSE IF Head(log).op \in ops
       THEN <<Head(log).id>> \o IdsOf(Tail(log), ops)
       ELSE IdsOf(Tail(log), ops)

Range(seq) == {seq[i] : i \in 1 .. Len(seq)}

NoReset(log) == \A i \in 1 .. Len(log) : log[i].op # "reset"

EndsWithReset(log) == log # <<>> /\ log[Len(log)].op = "reset"

\* C3: after set_syn_id and add_syn_id calls that returned, with no reset,
\* get_supported_syn_ids() is the ids in call order and supports_syn_id is
\* true exactly for them; right after reset_supported_syn_ids() it is the
\* ids given to set_syn_id in call order and supports_syn_id is false for
\* the ids that only add_syn_id was given.
RegistrySequencing ==
  \A k \in Kinds :
    LET log == calls[k]
        all == IdsOf(log, {"set_syn_id", "add_syn_id"})
        base == IdsOf(log, {"set_syn_id"})
        added == Range(IdsOf(log, {"add_syn_id"})) \ Range(base)
    IN  /\ NoReset(log) =>
             /\ supported_syn_ids_[k] = all
             /\ \A id \in SynIds : supports_syn_id_value(k, id) <=> id \in Range(all)
        /\ EndsWithReset(log) =>
             /\ supported_syn_ids_[k] = base
             /\ \A id \in added : ~supports_syn_id_value(k, id)
        /\ (last.op = "get_supported_syn_ids" /\ last.kind = k) =>
             /\ NoReset(log) => last.ret = all
             /\ EndsWithReset(log) => last.ret = base
        /\ (last.op = "supports_syn_id" /\ last.kind = k) =>
             /\ NoReset(log) => (last.ret <=> last.arg \in Range(all))
             /\ (EndsWithReset(log) /\ last.arg \in added) => last.ret = FALSE

RegistrySequencingWitness ==
  /\ IdsOf(calls[RegistryKind], {"set_syn_id", "add_syn_id"}) = <<1, 2, 3>>
  /\ IdsOf(calls[RegistryKind], {"add_syn_id"}) = <<3>>
  /\ EndsWithReset(calls[RegistryKind])
  /\ last.op = "supports_syn_id"
  /\ last.arg = 3
  /\ last.ret = FALSE
  /\ supported_syn_ids_[RegistryKind] = <<1, 2>>

\* C4: supported_syn_ids_ holds no synindex more than once.
NoDuplicates ==
  \A k \in Kinds :
    \A i, j \in 1 .. Len(supported_syn_ids_[k]) :
      i # j => supported_syn_ids_[k][i] # supported_syn_ids_[k][j]

\* C5: add_syn_id( synid ) with synid in supported_syn_ids_ fails its
\* assertion and changes neither supported_syn_ids_ nor
\* pristine_supported_syn_ids_.
DuplicateRejected ==
  [][ \A k \in Kinds :
        ( /\ last'.op = "add_syn_id"
          /\ last'.kind = k
          /\ Find(supported_syn_ids_[k], last'.arg) )
        => /\ status' = "aborted"
           /\ UNCHANGED <<supported_syn_ids_, pristine_supported_syn_ids_>> ]_vars

DuplicateRejectedWitness ==
  /\ last.op = "add_syn_id"
  /\ status = "aborted"
  /\ num_threads = 1
  /\ Find(supported_syn_ids_[last.kind], last.arg)
  /\ supported_syn_ids_[last.kind] = <<1, 2>>
  /\ pristine_supported_syn_ids_[last.kind] = <<1>>

\* a can be had from b by leaving elements out
RECURSIVE IsSubseq(_, _)
IsSubseq(a, b) ==
  IF a = <<>> THEN TRUE
  ELSE IF b = <<>> THEN FALSE
  ELSE IF Head(a) = Head(b) THEN IsSubseq(Tail(a), Tail(b))
  ELSE IsSubseq(a, Tail(b))

\* C19: after every sequence of set_syn_id, add_syn_id and
\* reset_supported_syn_ids calls (with or without a reset after the last
\* add_syn_id) pristine_supported_syn_ids_ is a subsequence of
\* supported_syn_ids_, in the same order; add_syn_id and
\* reset_supported_syn_ids never change pristine_supported_syn_ids_.
BaselineSubsequence ==
  /\ [](\A k \in Kinds :
          IsSubseq(pristine_supported_syn_ids_[k], supported_syn_ids_[k]))
  /\ [][ last'.op \in {"add_syn_id", "reset_supported_syn_ids"} =>
           UNCHANGED pristine_supported_syn_ids_ ]_vars

BaselineSubsequenceWitness ==
  /\ pristine_supported_syn_ids_[RegistryKind] = <<3, 1>>
  /\ supported_syn_ids_[RegistryKind] = <<3, 2, 1>>
  /\ NoReset(calls[RegistryKind])
  /\ last.op = "set_syn_id"
  /\ status = "running"

\* ------------------------------------------------------ event instances
\* A coefficient window is the pair of unions coeffarray_begin_ and
\* coeffarray_end_.  `active` names the union member written last: "as_d"
\* (iterators into the caller's std::vector< double > ca, kept here by its
\* elements; begin and end are indices into it), "as_uint" (iterators into
\* the buffer; begin and end are word indices) or "none" (the default
\* constructors of the unions initialise nothing).  len0 is coeff_length_ as
\* it stood when the window was set, at the number of calls counted before
\* operator<< set it.
Vals == 1 .. MaxVal

\* the object representation of the double the model calls n
DoubleBytes(n) == [j \in 0 .. DoubleSize - 1 |-> 16 * n + j]

\* the std::vector< double > values a caller can own
RECURSIVE SeqsOfLen(_)
SeqsOfLen(n) ==
  IF n = 0 THEN {<<>>}
  ELSE {Append(s, v) : s \in SeqsOfLen(n - 1), v \in Vals}

Arrays == UNION {SeqsOfLen(n) : n \in 0 .. MaxLen}

\* GapJunctionEvent(), DiffusionConnectionEvent(), ...: a new instance
NewEvent(t, e, k) ==
  /\ status = "running"
  /\ ev' = [ev EXCEPT ![e] = [kind |-> k, active |-> "none", ca |-> <<>>,
                              begin |-> 0, end |-> 0, len0 |-> 0,
                              at |-> 0, drift_factor_ |-> Uninit,
                              diffusion_factor_ |-> Uninit]]
  /\ last' = [op |-> "new", thread |-> t, ev |-> e]
  /\ UNCHANGED <<buffer, sent, codec, status, num_threads, regvars, calls, frozen>>

\* mutant: the copy is a default-constructed instance of the kind
clone_fresh(t, e, e2) ==
  /\ status = "running"
  /\ ev[e].kind # "none"
  /\ ev' = [ev EXCEPT ![e2] = [NoEvent EXCEPT !.kind = ev[e].kind]]
  /\ last' = [op |-> "clone", thread |-> t, ev |-> e, ret |-> e2]
  /\ UNCHANGED <<buffer, sent, codec, status, num_threads, regvars, calls, frozen>>

\* new Subclass( *this ): the copy lives in place e2
clone(t, e, e2) ==
  /\ status = "running"
  /\ ev[e].kind # "none"
  /\ ev' = [ev EXCEPT ![e2] = ev[e]]
  /\ last' = [op |-> "clone", thread |-> t, ev |-> e, ret |-> e2]
  /\ UNCHANGED <<buffer, sent, codec, status, num_threads, regvars, calls, frozen>>

\* the two weights of a DiffusionConnectionEvent; the constructor leaves
\* them uninitialised (Uninit), and so they are in events of other kinds
Weights == 1 .. MaxVal

set_drift_factor(t, e, w) ==
  /\ status = "running"
  /\ ev[e].kind = "DiffusionConnectionEvent"
  /\ ev' = [ev EXCEPT ![e] = [@ EXCEPT !.drift_factor_ = w]]
  /\ last' = [op |-> "set_drift_factor", thread |-> t, ev |-> e, arg |-> w]
  /\ UNCHANGED <<buffer, sent, codec, status, num_threads, regvars, calls, frozen>>

set_diffusion_factor(t, e, w) ==
  /\ status = "running"
  /\ ev[e].kind = "DiffusionConnectionEvent"
  /\ ev' = [ev EXCEPT ![e] = [@ EXCEPT !.diffusion_factor_ = w]]
  /\ last' = [op |-> "set_diffusion_factor", thread |-> t, ev |-> e, arg |-> w]
  /\ UNCHANGED <<buffer, sent, codec, status, num_threads, regvars, calls, frozen>>

\* what reading a weight yields: its value, or any value when it was never
\* set
WeightRead(w) == IF w = Uninit THEN Weights ELSE {w}

get_drift_factor(t, e) ==
  /\ status = "running"
  /\ ev[e].kind = "DiffusionConnectionEvent"
  /\ \E w \in WeightRead(ev[e].drift_factor_) :
       last' = [op |-> "get_drift_factor", thread |-> t, ev |-> e, ret |-> w]
  /\ UNCHANGED <<buffer, sent, codec, ev, status, num_threads, regvars, calls, frozen>>

get_diffusion_factor(t, e) ==
  /\ status = "running"
  /\ ev[e].kind = "DiffusionConnectionEvent"
  /\ \E w \in WeightRead(ev[e].diffusion_factor_) :
       last' = [op |-> "get_diffusion_factor", thread |-> t, ev |-> e, ret |-> w]
  /\ UNCHANGED <<buffer, sent, codec, ev, status, num_threads, regvars, calls, frozen>>

\* mutant: assert( coeff_length_ >= ca.size() )
set_coeffarray_atmost(t, e, ca) ==
  /\ status = "running"
  /\ ev[e].kind # "none"
  /\ ev' = [ev EXCEPT ![e] = [@ EXCEPT !.active = "as_d", !.ca = ca,
                                        !.begin = 0, !.end = Len(ca),
                                        !.len0 = coeff_length_[ev[e].kind]]]
  /\ last' = [op |-> "set_coeffarray", thread |-> t, ev |-> e, arg |-> ca]
  /\ IF coeff_length_[ev[e].kind] >= Len(ca) THEN UNCHANGED status ELSE Abort
  /\ UNCHANGED <<buffer, sent, codec, num_threads, regvars, calls, frozen>>

\* mutant: no assert( coeff_length_ == ca.size() )
set_coeffarray_unchecked(t, e, ca) ==
  /\ status = "running"
  /\ ev[e].kind # "none"
  /\ ev' = [ev EXCEPT ![e] = [@ EXCEPT !.active = "as_d", !.ca = ca,
                                        !.begin = 0, !.end = Len(ca),
                                        !.len0 = coeff_length_[ev[e].kind]]]
  /\ last' = [op |-> "set_coeffarray", thread |-> t, ev |-> e, arg |-> ca]
  /\ UNCHANGED <<buffer, sent, codec, status, num_threads, regvars, calls, frozen>>

set_coeffarray(t, e, ca) ==
  /\ status = "running"
  /\ ev[e].kind # "none"
  /\ ev' = [ev EXCEPT ![e] = [@ EXCEPT !.active = "as_d", !.ca = ca,
                                        !.begin = 0, !.end = Len(ca),
                                        !.len0 = coeff_length_[ev[e].kind]]]
  /\ IF coeff_length_[ev[e].kind] = Len(ca) THEN UNCHANGED status ELSE Abort
  /\ last' = [op |-> "set_coeffarray", thread |-> t, ev |-> e, arg |-> ca]
  /\ UNCHANGED <<buffer, sent, codec, num_threads, regvars, calls, frozen>>

\* operator<<( pos ): the window becomes the next coeff_length_ elements of
\* the buffer
\* mutant: the window ends coeff_length_ words, not elements, after pos
DeserializeWords(t, e, pos) ==
  LET end == pos + coeff_length_[ev[e].kind]
  IN  /\ status = "running"
      /\ ev[e].kind # "none"
      /\ ev' = [ev EXCEPT ![e] = [@ EXCEPT !.active = "as_uint", !.ca = <<>>,
                                            !.begin = pos, !.end = end,
                                            !.len0 = coeff_length_[ev[e].kind],
                                            !.at = nsteps]]
      /\ last' = [op |-> "operator<<", thread |-> t, ev |-> e, pos |-> pos, out |-> end]
      /\ UNCHANGED <<buffer, sent, codec, status, num_threads, regvars, calls, frozen>>

Deserialize(t, e, pos) ==
  LET end == pos + coeff_length_[ev[e].kind] * number_of_uints_covered(DoubleSize)
  IN  /\ status = "running"
      /\ ev[e].kind # "none"
      /\ ev' = [ev EXCEPT ![e] = [@ EXCEPT !.active = "as_uint", !.ca = <<>>,
                                            !.begin = pos, !.end = end,
                                            !.len0 = coeff_length_[ev[e].kind],
                                            !.at = nsteps]]
      /\ last' = [op |-> "operator<<", thread |-> t, ev |-> e, pos |-> pos, out |-> end]
      /\ UNCHANGED <<buffer, sent, codec, status, num_threads, regvars, calls, frozen>>

\* mutant: the elements are written last to first
RECURSIVE SerializeLoopReversed(_, _, _, _, _)
SerializeLoopReversed(buf, pos, ca, it, end) ==
  IF it # end
  THEN LET w == write_to_comm_buffer(buf, DoubleBytes(ca[end - it]), pos)
       IN  SerializeLoopReversed(w.buf, w.pos, ca, it + 1, end)
  ELSE [buf |-> buf, pos |-> pos]

\* the loop of operator>> from the iterator it (an index into ca) on
RECURSIVE SerializeLoop(_, _, _, _, _)
SerializeLoop(buf, pos, ca, it, end) ==
  IF it # end
  THEN LET w == write_to_comm_buffer(buf, DoubleBytes(ca[it + 1]), pos)
       IN  SerializeLoop(w.buf, w.pos, ca, it + 1, end)
  ELSE [buf |-> buf, pos |-> pos]

\* what a pair of indeterminate iterators can denote: any number of
\* elements, of a value (0) that no caller's array holds
JunkArrays == {[i \in 1 .. n |-> 0] : n \in 0 .. MaxLen}

\* mutant: the synapse id is written in front of the elements
SerializeWithSynId(t, e, pos) ==
  /\ status = "running"
  /\ ev[e].kind # "none"
  /\ \/ /\ ev[e].active = "as_d"
        /\ pos + 1 + Len(ev[e].ca) * number_of_uints_covered(DoubleSize) <= BufWords
        /\ LET h == write_to_comm_buffer(buffer, [j \in 0 .. SynindexSize - 1 |-> 1], pos)
               r == SerializeLoop(h.buf, h.pos, ev[e].ca, ev[e].begin, ev[e].end)
           IN  /\ buffer' = r.buf
               /\ sent' = [valid |-> TRUE, bound |-> TRUE, pos |-> pos,
                           ca |-> ev[e].ca, out |-> r.pos, at |-> nsteps]
               /\ last' = [op |-> "operator>>", thread |-> t, ev |-> e, pos |-> pos,
                           out |-> r.pos]
        /\ UNCHANGED status
     \/ /\ ev[e].active # "as_d"
        /\ \E junk \in JunkArrays :
             /\ pos + Len(junk) * number_of_uints_covered(DoubleSize) <= BufWords
             /\ LET r == SerializeLoop(buffer, pos, junk, 0, Len(junk))
                IN  /\ buffer' = r.buf
                    /\ sent' = [valid |-> TRUE, bound |-> FALSE, pos |-> pos,
                                ca |-> junk, out |-> r.pos, at |-> nsteps]
                    /\ last' = [op |-> "operator>>", thread |-> t, ev |-> e, pos |-> pos,
                                out |-> r.pos]
        /\ UNCHANGED status
     \/ /\ ev[e].active # "as_d"
        /\ Abort
        /\ last' = [op |-> "operator>>", thread |-> t, ev |-> e, pos |-> pos]
        /\ UNCHANGED <<buffer, sent>>
  /\ UNCHANGED <<codec, ev, num_threads, regvars, calls, frozen>>

\* operator>>( pos ) reads the as_d members of the unions.  When they were
\* not the members written last (the window was never bound, or was bound
\* by operator<<) the iterators read are indeterminate: the call may write
\* any number of indeterminate elements, or fault.
Serialize(t, e, pos) ==
  /\ status = "running"
  /\ ev[e].kind # "none"
  /\ \/ /\ ev[e].active = "as_d"
        /\ LET r == SerializeLoop(buffer, pos, ev[e].ca, ev[e].begin, ev[e].end)
           IN  /\ buffer' = r.buf
               /\ sent' = [valid |-> TRUE, bound |-> TRUE, pos |-> pos,
                           ca |-> ev[e].ca, out |-> r.pos, at |-> nsteps]
               /\ last' = [op |-> "operator>>", thread |-> t, ev |-> e, pos |-> pos,
                           out |-> r.pos]
        /\ UNCHANGED status
     \/ /\ ev[e].active # "as_d"
        /\ \E junk \in JunkArrays :
             /\ pos + Len(junk) * number_of_uints_covered(DoubleSize) <= BufWords
             /\ LET r == SerializeLoop(buffer, pos, junk, 0, Len(junk))
                IN  /\ buffer' = r.buf
                    /\ sent' = [valid |-> TRUE, bound |-> FALSE, pos |-> pos,
                                ca |-> junk, out |-> r.pos, at |-> nsteps]
                    /\ last' = [op |-> "operator>>", thread |-> t, ev |-> e, pos |-> pos,
                                out |-> r.pos]
        /\ UNCHANGED status
     \/ /\ ev[e].active # "as_d"
        /\ Abort
        /\ last' = [op |-> "operator>>", thread |-> t, ev |-> e, pos |-> pos]
        /\ UNCHANGED <<buffer, sent>>
  /\ UNCHANGED <<codec, ev, num_threads, regvars, calls, frozen>>

\* DataType elem before read_from_comm_buffer fills it
UninitDouble == [j \in 0 .. DoubleSize - 1 |-> Uninit]

\* mutant: the read moves begin() behind the element read
get_coeffvalue_consuming(t, e, pos) ==
  /\ status = "running"
  /\ ev[e].kind # "none"
  /\ LET r == read_from_comm_buffer(buffer, UninitDouble, pos)
     IN  /\ last' = [op |-> "get_coeffvalue", thread |-> t, ev |-> e, pos |-> pos,
                      ret |-> r.d, out |-> r.pos]
         /\ ev' = [ev EXCEPT ![e] = [@ EXCEPT !.begin = r.pos]]
  /\ UNCHANGED <<buffer, sent, codec, status, num_threads, regvars, calls, frozen>>

get_coeffvalue(t, e, pos) ==
  /\ status = "running"
  /\ ev[e].kind # "none"
  /\ LET r == read_from_comm_buffer(buffer, UninitDouble, pos)
     IN  last' = [op |-> "get_coeffvalue", thread |-> t, ev |-> e, pos |-> pos,
                  ret |-> r.d, out |-> r.pos]
  /\ UNCHANGED <<buffer, sent, codec, ev, status, num_threads, regvars, calls, frozen>>

\* mutant: the elements only
size_value_elements(k) == number_of_uints_covered(DoubleSize) * coeff_length_[k]

size_value(k) ==
  number_of_uints_covered(SynindexSize) + number_of_uints_covered(IndexSize)
    + number_of_uints_covered(DoubleSize) * coeff_length_[k]

\* a call of size() and the value it returns
size(t, e) ==
  /\ status = "running"
  /\ ev[e].kind # "none"
  /\ last' = [op |-> "size", thread |-> t, ev |-> e, ret |-> size_value(ev[e].kind)]
  /\ UNCHANGED <<buffer, sent, codec, ev, status, num_threads, regvars, calls, frozen>>

\* ---------------------------------------------- the payload on its own
\* Every sequence of calls on the instances of one kind, by one thread: the
\* coefficient length is set, instances are made, bound, written to the
\* buffer and read from it.
\* places the caller lets an iterator point to: a call stays inside the
\* buffer
Fits(pos, n) == pos + n * number_of_uints_covered(DoubleSize) <= BufWords

PayloadKind == "GapJunctionEvent"

\* the call counts against the bound of a run
Counted == nsteps' = nsteps + 1 /\ UNCHANGED pc

NextPayload ==
  \/ \E n \in 0 .. MaxLen :
       nsteps < MaxSteps /\ set_coeff_length(0, PayloadKind, n) /\ Counted
  \/ \E e \in Events : \E e2 \in Events \ {e} :
       nsteps < MaxSteps /\ clone(0, e, e2) /\ Counted
  \/ \E e \in Events, ca \in Arrays :
       nsteps < MaxSteps /\ set_coeffarray(0, e, ca) /\ Counted
  \/ \E e \in Events, pos \in WordIdx :
       /\ nsteps < MaxSteps
       /\ Fits(pos, coeff_length_[PayloadKind])
       /\ Deserialize(0, e, pos)
       /\ Counted
  \/ \E e \in Events, pos \in WordIdx :
       /\ nsteps < MaxSteps
       /\ Fits(pos, Len(ev[e].ca))
       /\ Serialize(0, e, pos)
       /\ Counted
  \/ \E e \in Events : NewEvent(0, e, PayloadKind) /\ Uncounted
  \/ \E e \in Events, pos \in WordIdx :
       Fits(pos, 1) /\ get_coeffvalue(0, e, pos) /\ Uncounted
  \/ \E e \in Events : size(0, e) /\ Uncounted

SpecPayload == Init /\ [][NextPayload]_vars

\* number_of_uints_covered< DataType >()
W == number_of_uints_covered(DoubleSize)

\* C2: an array of L elements bound by set_coeffarray and written by
\* operator>> at a position is read back, element by element and in order,
\* by get_coeffvalue calls that start at begin() of an instance that ran
\* operator<< from the same position with the same coefficient length; the
\* iterator after operator<< is the iterator after operator>>, L * W words
\* after the position.
ArrayRoundTrip ==
  /\ ( /\ last.op = "operator<<"
       /\ sent.valid
       /\ sent.bound
       /\ last.pos = sent.pos
       /\ coeff_length_[ev[last.ev].kind] = Len(sent.ca) )
     => /\ last.out = sent.out
        /\ last.out = sent.pos + Len(sent.ca) * W
  /\ ( /\ last.op = "get_coeffvalue"
       /\ status = "running"
       /\ sent.valid
       /\ sent.bound
       /\ ev[last.ev].active = "as_uint"
       /\ ev[last.ev].begin = sent.pos
       /\ ev[last.ev].end = sent.out )
     => \A i \in 0 .. Len(sent.ca) - 1 :
          last.pos = ev[last.ev].begin + i * W
            => /\ last.ret = DoubleBytes(sent.ca[i + 1])
               /\ last.out = ev[last.ev].begin + (i + 1) * W

ArrayRoundTripWitness ==
  /\ last.op = "get_coeffvalue"
  /\ sent.valid
  /\ sent.bound
  /\ sent.ca = <<1, 2>>
  /\ ev[last.ev].active = "as_uint"
  /\ ev[last.ev].begin = sent.pos
  /\ ev[last.ev].end = sent.out
  /\ last.pos = ev[last.ev].begin + W
  /\ last.ret = DoubleBytes(2)
  /\ last.out = sent.out

\* the elements a call covered: the words its iterator advanced by, in
\* elements
Covered == (last.out - last.pos) \div W

\* C6 as claimed: every operator>> and every operator<< covers exactly
\* coeff_length_ elements, as coeff_length_ stands at the time of the call.
CoversCoeffLength ==
  /\ last.op = "operator<<" =>
       /\ last.out - last.pos = Covered * W
       /\ Covered = coeff_length_[ev[last.ev].kind]
  /\ (last.op = "operator>>" /\ status = "running" /\ ev[last.ev].active = "as_d") =>
       /\ last.out - last.pos = Covered * W
       /\ Covered = coeff_length_[ev[last.ev].kind]

\* C6 as amended: every operator<< covers exactly coeff_length_ elements as
\* it stands at the time of the call; every operator>> on a window bound by
\* set_coeffarray covers exactly the elements of the bound array, as many as
\* coeff_length_ was when set_coeffarray bound it.
CoversBoundLength ==
  /\ last.op = "operator<<" =>
       /\ last.out - last.pos = Covered * W
       /\ Covered = coeff_length_[ev[last.ev].kind]
       /\ ev[last.ev].begin = last.pos
       /\ ev[last.ev].end = last.out
  /\ (last.op = "operator>>" /\ status = "running" /\ ev[last.ev].active = "as_d") =>
       /\ last.out - last.pos = Covered * W
       /\ Covered = ev[last.ev].len0
       /\ Covered = Len(ev[last.ev].ca)
       /\ coeff_length_[ev[last.ev].kind] = ev[last.ev].len0
            => Covered = coeff_length_[ev[last.ev].kind]

CoversBoundLengthWitness ==
  /\ last.op = "operator>>"
  /\ status = "running"
  /\ ev[last.ev].active = "as_d"
  /\ Covered = 2
  /\ coeff_length_[ev[last.ev].kind] = 1

\* word j of the element v as write_to_comm_buffer lays it out
ElementWord(v, j) == [k \in 0 .. WordSize - 1 |-> DoubleBytes(v)[j * WordSize + k]]

\* C7: operator>> at the iterator c on a window that set_coeffarray bound to
\* the L elements of ca writes element i into the words [c + i*W, c + (i+1)*W)
\* in element order, nothing in front of element 0, returns c + L*W and
\* leaves every word outside [c, c + L*W) as it was.
SerializeLayout ==
  [][ (last'.op = "operator>>" /\ status' = "running" /\ ev[last'.ev].active = "as_d") =>
        LET c  == last'.pos
            ca == ev[last'.ev].ca
            L  == Len(ca)
        IN  /\ last'.out = c + L * W
            /\ \A i \in 0 .. L - 1 : \A j \in 0 .. W - 1 :
                 buffer'[c + i * W + j] = ElementWord(ca[i + 1], j)
            /\ \A w \in WordIdx :
                 (w < c \/ w >= c + L * W) => buffer'[w] = buffer[w] ]_vars

SerializeLayoutWitness ==
  /\ last.op = "operator>>"
  /\ status = "running"
  /\ ev[last.ev].active = "as_d"
  /\ Len(ev[last.ev].ca) = 1
  /\ last.pos = 1
  /\ last.out = 1 + W
  /\ buffer[1] = ElementWord(ev[last.ev].ca[1], 0)
  /\ buffer[2] = ElementWord(ev[last.ev].ca[1], 1)
  /\ buffer[0] = FilledBuffer(0)[0]
  /\ buffer[3] = FilledBuffer(0)[3]

\* the double that the words of buf from pos on hold
DoubleAt(buf, pos) ==
  [b \in 0 .. DoubleSize - 1 |-> buf[pos + (b \div WordSize)][b % WordSize]]

\* C8: operator<< at the iterator c sets begin() = c and
\* end() = c + coeff_length_ * W, returns that end, changes no buffer word
\* and keeps no copy of the elements; get_coeffvalue returns what the buffer
\* holds when it is called.
ZeroCopyDeserialize ==
  [][ /\ last'.op = "operator<<" =>
           /\ ev'[last'.ev].begin = last'.pos
           /\ ev'[last'.ev].end = last'.pos + coeff_length_[ev[last'.ev].kind] * W
           /\ last'.out = ev'[last'.ev].end
           /\ ev'[last'.ev].ca = <<>>
           /\ buffer' = buffer
      /\ (last'.op = "get_coeffvalue" /\ status' = "running") =>
           /\ last'.ret = DoubleAt(buffer, last'.pos)
           /\ last'.out = last'.pos + W
           /\ buffer' = buffer ]_vars

\* a window set by operator<<, its region overwritten afterwards by another
\* instance's operator>>, read through begin(): the value read is the one
\* written after operator<<
ZeroCopyDeserializeWitness ==
  /\ last.op = "get_coeffvalue"
  /\ ev[last.ev].active = "as_uint"
  /\ ev[last.ev].end = ev[last.ev].begin + W
  /\ last.pos = ev[last.ev].begin
  /\ sent.valid
  /\ sent.bound
  /\ sent.at > ev[last.ev].at
  /\ sent.pos = last.pos
  /\ sent.ca = <<2>>
  /\ last.ret = DoubleBytes(2)

\* C12: set_coeffarray( ca ) with ca.size() different from coeff_length_
\* ends the process, so operator>> never runs on a window that
\* set_coeffarray bound to an array whose size differed from coeff_length_
\* at that time.
BindPrecondition ==
  [][ /\ (last'.op = "set_coeffarray"
             /\ Len(last'.arg) # coeff_length_[ev[last'.ev].kind]) =>
           status' = "aborted"
      /\ (last'.op = "operator>>" /\ ev[last'.ev].active = "as_d") =>
           /\ status' = "running"
           /\ Len(ev[last'.ev].ca) = ev[last'.ev].len0 ]_vars

BindPreconditionWitness ==
  /\ last.op = "set_coeffarray"
  /\ status = "aborted"
  /\ Len(last.arg) = 1
  /\ coeff_length_[ev[last.ev].kind] = 2

\* the words of the two terms of size() that are not elements
HeaderWords == number_of_uints_covered(SynindexSize) + number_of_uints_covered(IndexSize)

\* the call before this one was operator<< or a defined operator>> of the
\* instance e
JustTransferred(e) ==
  /\ last.op \in {"operator<<", "operator>>"}
  /\ last.ev = e
  /\ last.op = "operator>>" => ev[e].active = "as_d"

\* C14 as claimed: size() returns number_of_uints_covered< synindex >() +
\* number_of_uints_covered< index >() + coeff_length_ *
\* number_of_uints_covered< DataType >(), strictly more than the number of
\* words by which operator>> and operator<< of the instance advance their
\* iterator.
SizeExceedsAdvance ==
  [][ last'.op = "size" =>
        /\ last'.ret = HeaderWords + coeff_length_[ev[last'.ev].kind] * W
        /\ JustTransferred(last'.ev) => last'.ret > last.out - last.pos ]_vars

\* C14 as amended: size() returns the same sum, strictly more than
\* coeff_length_ * W; operator<< advances by coeff_length_ * W, and so does
\* operator>> on a window that set_coeffarray bound while coeff_length_ had
\* the value it has at the size() call, so that size() exceeds their
\* advance by the two header terms; on other bound windows operator>>
\* advances by the bound length times W.
SizeExceedsConfiguredAdvance ==
  [][ last'.op = "size" =>
        LET e == last'.ev
            L == coeff_length_[ev[e].kind]
        IN  /\ last'.ret = HeaderWords + L * W
            /\ last'.ret > L * W
            /\ HeaderWords >= 2
            /\ (JustTransferred(e) /\ last.op = "operator<<") =>
                 last'.ret = (last.out - last.pos) + HeaderWords
            /\ (JustTransferred(e) /\ last.op = "operator>>") =>
                 /\ last.out - last.pos = ev[e].len0 * W
                 /\ ev[e].len0 = L => last'.ret = (last.out - last.pos) + HeaderWords ]_vars

SizeExceedsConfiguredAdvanceWitness ==
  /\ last.op = "size"
  /\ last.ret = HeaderWords + 2 * W
  /\ ev[last.ev].active = "as_d"
  /\ ev[last.ev].len0 = 2
  /\ coeff_length_[ev[last.ev].kind] = 2
  /\ sent.valid
  /\ sent.bound
  /\ sent.ca = ev[last.ev].ca
  /\ sent.out - sent.pos = 2 * W

\* C16: get_coeffvalue( pos ) returns the element held by the W words at
\* pos and advances pos by W, whether or not the window of the instance was
\* ever set, and changes neither the window of any instance nor any buffer
\* word.
ReadElement ==
  [][ last'.op = "get_coeffvalue" =>
        /\ status' = "running"
        /\ last'.ret = DoubleAt(buffer, last'.pos)
        /\ last'.out = last'.pos + W
        /\ ev' = ev
        /\ buffer' = buffer ]_vars

ReadElementWitness ==
  /\ last.op = "get_coeffvalue"
  /\ ev[last.ev].active = "none"
  /\ last.pos = 2
  /\ last.out = 2 + W
  /\ sent.valid
  /\ sent.bound
  /\ sent.pos = 0
  /\ sent.ca = <<1, 2>>
  /\ last.ret = DoubleBytes(2)

\* ------------------------------------------------ clones on their own
\* One thread makes instances of both kinds, copies them with clone(), sets
\* their windows and weights and reads through them, over a buffer that a
\* sender has filled with the array <<1, 2>>, after a setup that gave both
\* kinds the coefficient length 1.  Arrays are bound with the length that
\* passes the assertion of set_coeffarray.
MaxCloneSteps == 4

InitClone ==
  /\ status = "running"
  /\ num_threads = 1
  /\ pristine_supported_syn_ids_ = [k \in Kinds |-> <<>>]
  /\ supported_syn_ids_ = [k \in Kinds |-> <<>>]
  /\ coeff_length_ = [k \in Kinds |-> 1]
  /\ calls = [k \in Kinds |-> <<>>]
  /\ frozen = [ids |-> [k \in Kinds |-> <<>>], ncalls |-> [k \in Kinds |-> 0]]
  /\ ev = [e \in Events |-> NoEvent]
  /\ sent = NoSent
  /\ nsteps = 0
  /\ pc = NoPc
  /\ last = NoCall
  /\ codec = IdleCodec
  /\ buffer = SerializeLoop(FilledBuffer(0), 0, <<1, 2>>, 0, 2).buf

NextClone ==
  \/ \E e \in Events, k \in Kinds :
       ev[e].kind = "none" /\ NewEvent(0, e, k) /\ Uncounted
  \/ \E e \in Events : \E e2 \in Events \ {e} :
       nsteps < MaxCloneSteps /\ clone(0, e, e2) /\ Counted
  \/ \E e \in Events, ca \in Arrays :
       /\ nsteps < MaxCloneSteps
       /\ ev[e].kind # "none"
       /\ Len(ca) = coeff_length_[ev[e].kind]
       /\ set_coeffarray(0, e, ca)
       /\ Counted
  \/ \E e \in Events, pos \in WordIdx :
       /\ nsteps < MaxCloneSteps
       /\ ev[e].kind # "none"
       /\ Fits(pos, coeff_length_[ev[e].kind])
       /\ Deserialize(0, e, pos)
       /\ Counted
  \/ \E e \in Events, w \in Weights :
       nsteps < MaxCloneSteps /\ set_drift_factor(0, e, w) /\ Counted
  \/ \E e \in Events, w \in Weights :
       nsteps < MaxCloneSteps /\ set_diffusion_factor(0, e, w) /\ Counted
  \/ \E e \in Events : get_drift_factor(0, e) /\ Uncounted
  \/ \E e \in Events : get_diffusion_factor(0, e) /\ Uncounted
  \/ \E e \in Events, pos \in WordIdx :
       Fits(pos, 1) /\ get_coeffvalue(0, e, pos) /\ Uncounted

SpecClone == InitClone /\ [][NextClone]_vars

\* the calls that write a member of the instance they are called on, or
\* advance an iterator copied from it
InstanceOps == {"set_coeffarray", "operator<<", "get_coeffvalue", "set_drift_factor",
                "set_diffusion_factor"}

\* C17: clone() yields another instance of the same kind whose window and,
\* for a DiffusionConnectionEvent, whose drift and diffusion factors are
\* those of the original (as far as the original's were ever set), and
\* leaves the original as it was; afterwards set_coeffarray, operator<<,
\* the weight setters and get_coeffvalue on one instance leave every other
\* instance as it was, and a read at the begin() shared by two windows
\* returns what the buffer holds there whichever instance it is made
\* through.
CloneIndependence ==
  [][ /\ last'.op = "clone" =>
           LET e == last'.ev
               c == last'.ret
           IN  /\ c # e
               /\ ev'[e] = ev[e]
               /\ ev'[c].kind = ev[e].kind
               /\ ev[e].active # "none" =>
                    /\ ev'[c].active = ev[e].active
                    /\ ev'[c].begin = ev[e].begin
                    /\ ev'[c].end = ev[e].end
                    /\ ev'[c].ca = ev[e].ca
               /\ ev[e].drift_factor_ # Uninit =>
                    ev'[c].drift_factor_ = ev[e].drift_factor_
               /\ ev[e].diffusion_factor_ # Uninit =>
                    ev'[c].diffusion_factor_ = ev[e].diffusion_factor_
      /\ last'.op \in InstanceOps =>
           \A e2 \in Events \ {last'.ev} : ev'[e2] = ev[e2]
      /\ last'.op = "get_coeffvalue" =>
           \A e2 \in Events :
             (ev[e2].active = "as_uint" /\ ev[e2].begin = last'.pos) =>
               /\ last'.ret = DoubleAt(buffer', ev'[e2].begin)
               /\ ev'[e2] = ev[e2] ]_vars

CloneIndependenceWitness ==
  /\ last.op = "clone"
  /\ ev[last.ev].kind = "DiffusionConnectionEvent"
  /\ ev[last.ret] = ev[last.ev]
  /\ ev[last.ev].active = "as_uint"
  /\ ev[last.ev].begin = 2
  /\ ev[last.ev].end = 2 + W
  /\ ev[last.ev].drift_factor_ = 1
  /\ ev[last.ev].diffusion_factor_ = 2

\* ------------------------------------------------------------ rounds
\* The caller's round protocol over one slot of the buffer, after a setup
\* that gave the kind the coefficient length 1.  In each round thread 0
\* makes an instance, binds an array to it and writes it to the slot; only
\* then every thread makes an instance of its own, sets its window on the
\* slot with operator<< and reads the element; only when all have read does
\* the next round begin.
MaxRounds == 3

RoundKind == "GapJunctionEvent"

Slot == 0

Readers == 0 .. NumThreads - 1

\* the place of the instance of thread t
InstanceOf(t) == t + 1

InitRounds ==
  /\ status = "running"
  /\ num_threads = NumThreads
  /\ pristine_supported_syn_ids_ = [k \in Kinds |-> <<>>]
  /\ supported_syn_ids_ = [k \in Kinds |-> <<>>]
  /\ coeff_length_ = [k \in Kinds |-> 1]
  /\ calls = [k \in Kinds |-> <<>>]
  /\ frozen = [ids |-> [k \in Kinds |-> <<>>], ncalls |-> [k \in Kinds |-> 0]]
  /\ ev = [e \in Events |-> NoEvent]
  /\ sent = NoSent
  /\ nsteps = 0
  /\ last = NoCall
  /\ codec = IdleCodec
  /\ buffer = FilledBuffer(0)
  /\ pc = [phase |-> "write", n |-> 1, wr |-> 0, rd |-> [t \in Readers |-> 0],
           vals |-> <<>>]

SenderNew ==
  /\ pc.phase = "write"
  /\ pc.wr = 0
  /\ NewEvent(0, InstanceOf(0), RoundKind)
  /\ pc' = [pc EXCEPT !.wr = 1]
  /\ UNCHANGED nsteps

SenderBind ==
  /\ pc.phase = "write"
  /\ pc.wr = 1
  /\ \E ca \in SeqsOfLen(coeff_length_[RoundKind]) : set_coeffarray(0, InstanceOf(0), ca)
  /\ pc' = [pc EXCEPT !.wr = 2]
  /\ UNCHANGED nsteps

\* the write that ends the write phase of the round
SenderSerialize ==
  /\ pc.phase = "write"
  /\ pc.wr = 2
  /\ Serialize(0, InstanceOf(0), Slot)
  /\ pc' = [pc EXCEPT !.phase = "read", !.rd = [t \in Readers |-> 0],
                      !.vals = Append(@, ev[InstanceOf(0)].ca[1])]
  /\ UNCHANGED nsteps

ReaderNew(t) ==
  /\ pc.phase = "read"
  /\ pc.rd[t] = 0
  /\ NewEvent(t, InstanceOf(t), RoundKind)
  /\ pc' = [pc EXCEPT !.rd[t] = 1]
  /\ UNCHANGED nsteps

ReaderDeserialize(t) ==
  /\ pc.phase = "read"
  /\ pc.rd[t] = 1
  /\ Deserialize(t, InstanceOf(t), Slot)
  /\ pc' = [pc EXCEPT !.rd[t] = 2]
  /\ UNCHANGED nsteps

ReaderRead(t) ==
  /\ pc.phase = "read"
  /\ pc.rd[t] = 2
  /\ get_coeffvalue(t, InstanceOf(t), ev[InstanceOf(t)].begin)
  /\ pc' = [pc EXCEPT !.rd[t] = 3]
  /\ UNCHANGED nsteps

\* all reads of the round are complete: the slot may be written again
NextRound ==
  /\ pc.phase = "read"
  /\ \A t \in Readers : pc.rd[t] = 3
  /\ pc.n < MaxRounds
  /\ pc' = [pc EXCEPT !.phase = "write", !.n = @ + 1, !.wr = 0]
  /\ UNCHANGED <<buffer, codec, status, num_threads, regvars, calls, ev, sent, nsteps,
                 frozen, last>>

NextRounds ==
  \/ SenderNew
  \/ SenderBind
  \/ SenderSerialize
  \/ \E t \in Threads : ReaderNew(t)
  \/ \E t \in Threads : ReaderDeserialize(t)
  \/ \E t \in Threads : ReaderRead(t)
  \/ NextRound

SpecRounds == InitRounds /\ [][NextRounds]_vars

\* C18: under the caller's barrier every element a thread reads in round n
\* is the element thread 0 wrote to the slot in round n, whatever was
\* written in the rounds before.
RoundProtocol ==
  (pc.phase = "read" /\ last.op = "get_coeffvalue") =>
    /\ Len(pc.vals) = pc.n
    /\ last.ret = DoubleBytes(pc.vals[pc.n])
    /\ last.pos = Slot

RoundProtocolWitness ==
  /\ pc.phase = "read"
  /\ pc.n = 3
  /\ pc.vals = <<1, 2, 1>>
  /\ last.op = "get_coeffvalue"
  /\ last.thread = 1
  /\ pc.rd[0] = 3
  /\ last.ret = DoubleBytes(1)

\* ------------------------------------------- reset statement by statement
\* reset_supported_syn_ids taken one statement at a time, so that the calls
\* of other threads fall between clear() and the push_back calls.  One kind;
\* at most MaxRaceCalls registry calls; the threads are started and stopped
\* only while no reset is under way.
MaxRaceCalls == 3

RaceKind == "GapJunctionEvent"

\* the thread t is not inside reset_supported_syn_ids
Outside(t) == IF pc.phase = "none" THEN TRUE ELSE pc.thread # t

\* supported_syn_ids_.clear()
ResetClear(t, k) ==
  /\ status = "running"
  /\ pc.phase = "none"
  /\ supported_syn_ids_' = [supported_syn_ids_ EXCEPT ![k] = <<>>]
  /\ pc' = [phase |-> "reset", thread |-> t, kind |-> k, i |-> 0,
            before |-> supported_syn_ids_[k]]
  /\ last' = [op |-> "clear", thread |-> t, kind |-> k]
  /\ UNCHANGED <<buffer, sent, codec, ev, status, num_threads, pristine_supported_syn_ids_,
                 coeff_length_, calls, nsteps, frozen>>

\* supported_syn_ids_.push_back( pristine_supported_syn_ids_[ i ] ); ++i
ResetPush ==
  /\ status = "running"
  /\ pc.phase = "reset"
  /\ pc.i < Len(pristine_supported_syn_ids_[pc.kind])
  /\ supported_syn_ids_' =
       [supported_syn_ids_ EXCEPT
          ![pc.kind] = Append(@, pristine_supported_syn_ids_[pc.kind][pc.i + 1])]
  /\ pc' = [pc EXCEPT !.i = @ + 1]
  /\ last' = [op |-> "push_back", thread |-> pc.thread, kind |-> pc.kind]
  /\ UNCHANGED <<buffer, sent, codec, ev, status, num_threads, pristine_supported_syn_ids_,
                 coeff_length_, calls, nsteps, frozen>>

\* the loop condition fails: reset_supported_syn_ids returns
ResetReturn ==
  /\ status = "running"
  /\ pc.phase = "reset"
  /\ pc.i >= Len(pristine_supported_syn_ids_[pc.kind])
  /\ Logged(pc.kind, "reset", 0)
  /\ pc' = NoPc
  /\ last' = [op |-> "reset_supported_syn_ids", thread |-> pc.thread, kind |-> pc.kind]
  /\ UNCHANGED <<buffer, sent, codec, ev, status, num_threads, regvars, nsteps, frozen>>

\* a read of supported_syn_ids_ by a thread while another thread is inside
\* reset_supported_syn_ids is a data race: besides reading the vector as it
\* stands, the read may fault
RacingReadFaults(t, k) ==
  /\ status = "running"
  /\ pc.phase = "reset"
  /\ pc.kind = k
  /\ pc.thread # t
  /\ Abort
  /\ last' = [op |-> "fault", thread |-> t, kind |-> k]
  /\ UNCHANGED <<buffer, sent, codec, ev, num_threads, regvars, calls, nsteps, pc, frozen>>

NextRace ==
  \/ pc.phase = "none" /\ BeginParallel /\ Uncounted
  \/ pc.phase = "none" /\ EndParallel /\ Uncounted
  \/ \E t \in Threads, synid \in SynIds :
       /\ Outside(t)
       /\ TotalCalls < MaxRaceCalls
       /\ set_syn_id(t, RaceKind, synid)
       /\ Uncounted
  \/ \E t \in Threads, synid \in SynIds :
       /\ Outside(t)
       /\ TotalCalls < MaxRaceCalls
       /\ add_syn_id(t, RaceKind, synid)
       /\ Uncounted
  \/ \E t \in Threads : TotalCalls < MaxRaceCalls /\ ResetClear(t, RaceKind)
  \/ ResetPush
  \/ ResetReturn
  \/ \E t \in Threads, synid \in SynIds :
       Outside(t) /\ supports_syn_id(t, RaceKind, synid) /\ Uncounted
  \/ \E t \in Threads : Outside(t) /\ get_supported_syn_ids(t, RaceKind) /\ Uncounted
  \/ \E t \in Threads : RacingReadFaults(t, RaceKind)

SpecRace == Init /\ [][NextRace]_vars

\* C20: a supports_syn_id or get_supported_syn_ids call that returns while
\* a reset_supported_syn_ids of the kind is under way sees the supported
\* ids as they were before the reset or as pristine_supported_syn_ids_,
\* never the empty vector or a strict prefix in between (the reset having
\* ended the process if other threads run).
ResetNeverSeenHalfway ==
  (status = "running" /\ pc.phase = "reset" /\ pc.kind = RaceKind) =>
    /\ last.op = "get_supported_syn_ids" =>
         last.ret \in {pc.before, pristine_supported_syn_ids_[RaceKind]}
    /\ last.op = "supports_syn_id" =>
         last.ret \in {Find(pc.before, last.arg),
                       Find(pristine_supported_syn_ids_[RaceKind], last.arg)}

\* ------------------------------------------------------ the whole program
\* Setup and parallel regions in turn, every call on every kind by every
\* thread there is, at most MaxRun calls that change the registry, a
\* length, a window or the buffer.  Iterators point at the start of the
\* buffer.
Budget == TotalCalls + nsteps < MaxRun

Next ==
  \/ BeginParallel /\ Uncounted
  \/ EndParallel /\ Uncounted
  \/ \E t \in Threads, k \in Kinds, synid \in SynIds :
       supports_syn_id(t, k, synid) /\ Uncounted
  \/ \E t \in Threads, k \in Kinds : get_supported_syn_ids(t, k) /\ Uncounted
  \/ \E t \in Threads, e \in Events : Fits(0, 1) /\ get_coeffvalue(t, e, 0) /\ Uncounted
  \/ \E t \in Threads, e \in Events : size(t, e) /\ Uncounted
  \/ \E t \in Threads, k \in Kinds, synid \in SynIds :
       Budget /\ set_syn_id(t, k, synid) /\ Uncounted
  \/ \E t \in Threads, k \in Kinds, synid \in SynIds :
       Budget /\ add_syn_id(t, k, synid) /\ Uncounted
  \/ \E t \in Threads, k \in Kinds :
       Budget /\ reset_supported_syn_ids(t, k) /\ Uncounted
  \/ \E t \in Threads, k \in Kinds, n \in 0 .. MaxLen :
       Budget /\ set_coeff_length(t, k, n) /\ Counted
  \/ \E t \in Threads, e \in Events, k \in Kinds :
       Budget /\ NewEvent(t, e, k) /\ Counted
  \/ \E t \in Threads, e \in Events : \E e2 \in Events \ {e} :
       Budget /\ clone(t, e, e2) /\ Counted
  \/ \E t \in Threads, e \in Events, ca \in Arrays :
       Budget /\ set_coeffarray(t, e, ca) /\ Counted
  \/ \E t \in Threads, e \in Events :
       /\ Budget
       /\ ev[e].kind # "none"
       /\ Fits(0, coeff_length_[ev[e].kind])
       /\ Deserialize(t, e, 0)
       /\ Counted
  \/ \E t \in Threads, e \in Events :
       Budget /\ Fits(0, Len(ev[e].ca)) /\ Serialize(t, e, 0) /\ Counted

Spec == Init /\ [][Next]_vars

\* C9: set_syn_id, add_syn_id and set_coeff_length called while more than
\* one thread runs end the process, and leave the pristine ids, the
\* supported ids and coeff_length_ of every kind as they were.
SetupGuard ==
  [][ (last'.op \in {"set_syn_id", "add_syn_id", "set_coeff_length"} /\ num_threads > 1) =>
        /\ status' = "aborted"
        /\ UNCHANGED regvars ]_vars

SetupGuardWitness ==
  /\ last.op = "set_coeff_length"
  /\ num_threads > 1
  /\ status = "aborted"
  /\ last.arg # coeff_length_[last.kind]
  /\ supported_syn_ids_[last.kind] # <<>>

\* the calls that a thread completes while other threads run
WorkerOps == {"supports_syn_id", "get_supported_syn_ids", "operator<<", "operator>>",
              "get_coeffvalue", "size", "clone"}

\* no reset_supported_syn_ids of kind k since the threads started
NoResetSinceSetup(k) == Len(calls[k]) = frozen.ncalls[k]

\* C10: none of supports_syn_id, get_supported_syn_ids, operator<<,
\* operator>>, get_coeffvalue, size and clone changes the pristine ids, the
\* supported ids or coeff_length_ of any kind; while several threads run and
\* the kind has not been reset, supports_syn_id( id ) on any thread returns
\* whether id was among the supported ids when the threads started.
FrozenAfterSetup ==
  [][ /\ last'.op \in WorkerOps => UNCHANGED regvars
      /\ (last'.op = "supports_syn_id" /\ num_threads > 1 /\ NoResetSinceSetup(last'.kind)) =>
           last'.ret = Find(frozen.ids[last'.kind], last'.arg) ]_vars

FrozenAfterSetupWitness ==
  /\ last.op = "supports_syn_id"
  /\ num_threads > 1
  /\ last.thread = 1
  /\ NoResetSinceSetup(last.kind)
  /\ Len(frozen.ids[last.kind]) = 2
  /\ last.arg = frozen.ids[last.kind][2]
  /\ last.ret

\* the calls that assign a static member of a kind
RegistryMutators == {"set_syn_id", "add_syn_id", "reset_supported_syn_ids",
                     "set_coeff_length"}

\* C11: set_syn_id, add_syn_id, reset_supported_syn_ids and set_coeff_length
\* of one kind leave the pristine ids, the supported ids and coeff_length_
\* of every other kind as they were.
KindIndependence ==
  [][ \A k1 \in Kinds :
        (last'.op \in RegistryMutators /\ last'.kind = k1) =>
          \A k2 \in Kinds \ {k1} :
            /\ pristine_supported_syn_ids_'[k2] = pristine_supported_syn_ids_[k2]
            /\ supported_syn_ids_'[k2] = supported_syn_ids_[k2]
            /\ coeff_length_'[k2] = coeff_length_[k2] ]_vars

KindIndependenceWitness ==
  /\ last.op = "reset_supported_syn_ids"
  /\ status = "running"
  /\ last.kind = "GapJunctionEvent"
  /\ supported_syn_ids_["GapJunctionEvent"] = <<>>
  /\ calls["GapJunctionEvent"] # <<[op |-> "reset", id |-> 0]>>
  /\ supported_syn_ids_["DiffusionConnectionEvent"] # <<>>
  /\ pristine_supported_syn_ids_["DiffusionConnectionEvent"] = <<>>

\* ------------------------------------------------ the codec on its own
\* A caller holds a value d of a type of `size` bytes and an iterator at
\* pos0, writes d, and reads it back from pos0 into a fresh variable.
InitCodec ==
  /\ InitRegistry
  /\ \E f \in Bytes : buffer = FilledBuffer(f)
  /\ \E sz \in TypeSizes :
       \E d \in [0 .. sz - 1 -> Bytes] :
         \E pos \in 0 .. BufWords - number_of_uints_covered(sz) :
           codec = [phase |-> "start", d |-> d, pos0 |-> pos, wpos |-> pos,
                    old |-> buffer, out |-> [j \in 0 .. sz - 1 |-> Uninit],
                    rpos |-> pos]

CodecWrite ==
  /\ codec.phase = "start"
  /\ LET w == write_to_comm_buffer(buffer, codec.d, codec.wpos)
     IN  /\ buffer' = w.buf
         /\ codec' = [codec EXCEPT !.phase = "written", !.wpos = w.pos]
  /\ UNCHANGED <<status, num_threads, regvars, calls, ev, sent, nsteps, pc, frozen, last>>

CodecRead ==
  /\ codec.phase = "written"
  /\ LET r == read_from_comm_buffer(buffer, codec.out, codec.rpos)
     IN  /\ codec' = [codec EXCEPT !.phase = "read", !.out = r.d, !.rpos = r.pos]
  /\ UNCHANGED <<buffer, sent, status, num_threads, regvars, calls, ev, nsteps, pc, frozen,
                 last>>

NextCodec == CodecWrite \/ CodecRead

SpecCodec == InitCodec /\ [][NextCodec]_vars

\* C1: a value written by write_to_comm_buffer and read back by
\* read_from_comm_buffer from the same position is the same value byte for
\* byte, and both calls advance their iterator by number_of_uints_covered.
RoundTrip ==
  /\ codec.phase \in {"written", "read"} =>
       codec.wpos = codec.pos0 + number_of_uints_covered(SizeOf(codec.d))
  /\ codec.phase = "read" =>
       /\ codec.out = codec.d
       /\ codec.rpos = codec.pos0 + number_of_uints_covered(SizeOf(codec.d))
       /\ codec.rpos = codec.wpos

RoundTripWitness ==
  /\ codec.phase = "read"
  /\ SizeOf(codec.d) = DoubleSize
  /\ codec.pos0 = 1
  /\ codec.d[0] # codec.d[4]
  /\ codec.out = codec.d

\* C13: number_of_uints_covered< T >() is the least W with
\* W * sizeof( unsigned int ) >= sizeof( T ), and it is the number of words
\* the iterator of write_to_comm_buffer advances by.
WordCount ==
  codec.phase \in {"written", "read"} =>
    LET s == SizeOf(codec.d)
        wc == codec.wpos - codec.pos0
    IN  /\ wc = number_of_uints_covered(s)
        /\ wc * WordSize >= s
        /\ (wc - 1) * WordSize < s

WordCountWitness ==
  /\ codec.phase = "written"
  /\ SizeOf(codec.d) = 5
  /\ codec.wpos - codec.pos0 = 2

RECURSIVE SumSeq(_)
SumSeq(seq) == IF seq = <<>> THEN 0 ELSE Head(seq) + SumSeq(Tail(seq))

\* byte k of the words of buf from the word pos on
SpanByte(buf, pos, k) == buf[pos + (k \div WordSize)][k % WordSize]

\* C15: write_to_comm_buffer copies byte k of the value to byte k of the
\* words from the iterator on, in copies of 1 to sizeof( unsigned int )
\* bytes that add up to sizeof( T ); the bytes of the last word behind the
\* value and all words outside the number_of_uints_covered< T >() words
\* keep their content.
PackFrame ==
  codec.phase \in {"written", "read"} =>
    LET s == SizeOf(codec.d)
        nw == number_of_uints_covered(s)
        lens == CopyLens(0, nw, s)
    IN  /\ \A k \in 0 .. s - 1 : SpanByte(buffer, codec.pos0, k) = codec.d[k]
        /\ Len(lens) = nw
        /\ \A i \in 1 .. Len(lens) : lens[i] \in 1 .. WordSize
        /\ SumSeq(lens) = s
        /\ \A k \in s .. nw * WordSize - 1 :
             SpanByte(buffer, codec.pos0, k) = SpanByte(codec.old, codec.pos0, k)
        /\ \A w \in WordIdx :
             (w < codec.pos0 \/ w >= codec.pos0 + nw) => buffer[w] = codec.old[w]

PackFrameWitness ==
  /\ codec.phase = "written"
  /\ SizeOf(codec.d) = 6
  /\ codec.pos0 = 1
  /\ codec.old = FilledBuffer(1)
  /\ \A k \in 0 .. 5 : codec.d[k] = 0
  /\ buffer[2] = [k \in 0 .. WordSize - 1 |-> IF k < 2 THEN 0 ELSE 1]
  /\ buffer[0] = FilledBuffer(1)[0]
  /\ buffer[3] = FilledBuffer(1)[3]
====
